---- MODULE Spec2Model ----
(***************************************************************************)
(* atlas.stats: the sampling, differencing and ranking engine              *)
(* (pkg/stats/stats.go) and the message loop that drives it                *)
(* (pkg/ui/ui.go).                                                         *)
(*                                                                         *)
(* Time is counted in whole seconds.  uint64 counters are kept modulo      *)
(* 2^Width.  A provider answer is a record: its err/nil flag says whether  *)
(* the query failed, the other fields are what the call returned.          *)
(***************************************************************************)
EXTENDS Integers, Sequences, FiniteSets, TLC

VARIABLES
    procs,       \* Monitor.procs      : PID -> process handle
    lastStats,   \* Monitor.lastStats  : PID -> ProcessInfo of the previous poll
    lastTime,    \* Monitor.lastTime
    s,           \* the SystemStats returned by the last GetStats
    err,         \* the error returned by the last GetStats
    q,           \* the provider's answers to the last GetStats
    measured,    \* now.Sub(m.lastTime).Seconds() in the last GetStats (0: not computed)
    duration,    \* local `duration` of the last GetStats (0: not computed)
    procInfos,   \* local `procInfos` of the last GetStats
    fresh,       \* PIDs the last GetStats sampled without a cached sample
    seen,        \* PIDs some successful enumeration has contained
    gone,        \* seen PIDs missing from the latest successful enumeration
    everGone,    \* seen PIDs that some successful enumeration has missed
    sampledAt,   \* PID -> the clock reading of the poll that stored lastStats[PID]
    acquired,    \* PIDs the last GetStats called process.NewProcess for
    polls,       \* number of polls a scripted run has made
    started,     \* the program has run model.Init
    timers,      \* tea.Tick timers that have not fired yet
    running,     \* updateStats commands that are executing GetStats
    inbox,       \* messages sent to the program and not yet given to Update
    lastNetSent, \* model.lastNetSent
    lastNetRecv, \* model.lastNetRecv
    netHistory,  \* model.netHistory
    ticksHandled,\* tickMsg messages Update has handled
    pollsStarted,\* updateStats commands started
    scrollOffset,\* model.scrollOffset
    width,       \* model.width
    height,      \* model.height
    barWidth,    \* model.cpuProg.Width and model.memProg.Width
    quit,        \* Update has returned tea.Quit
    view         \* what the last View computed on its copy of the model

engineVars == <<procs, lastStats, lastTime, s, err, q, measured, duration, procInfos,
                fresh, seen, gone, everGone, sampledAt, acquired>>

loopVars == <<started, timers, running, inbox, lastNetSent, lastNetRecv, netHistory,
              ticksHandled, pollsStarted>>

scrollVars == <<scrollOffset, width, height, barWidth, quit, view>>

uiVars == <<loopVars, scrollVars>>

vars == <<procs, lastStats, lastTime, s, err, q, measured, duration, procInfos,
          fresh, seen, gone, everGone, sampledAt, acquired, polls,
          started, timers, running, inbox, lastNetSent, lastNetRecv, netHistory,
          ticksHandled, pollsStarted,
          scrollOffset, width, height, barWidth, quit, view>>

----------------------------------------------------------------------------
(* Bounds *)

Width == 12          \* bits of an unsigned counter
MaxClock == 2        \* clock readings are 0..MaxClock seconds

UintMod == 2 ^ Width

PIDs == {100, 101}

----------------------------------------------------------------------------
(* Helpers *)

Range(f) == {f[i] : i \in DOMAIN f}

Min(a, b) == IF a < b THEN a ELSE b

MapPut(f, k, v) == [x \in (DOMAIN f) \cup {k} |-> IF x = k THEN v ELSE f[x]]

Restrict(f, K) == [x \in (DOMAIN f) \cap K |-> f[x]]

EmptyMap == [x \in {} |-> 0]

\* all sequences that enumerate the set S once each
Perms(S) ==
    {f \in [1..Cardinality(S) -> S] : \A i, j \in 1..Cardinality(S) : f[i] = f[j] => i = j}

GoNil == "nil"

----------------------------------------------------------------------------
(* Data types of pkg/stats *)

ProcessInfo(pid, name, cpuVal, memUsage, diskIO, diskRate, netConns) ==
    [PID |-> pid, Name |-> name, CPU |-> cpuVal, Mem |-> memUsage,
     DiskIO |-> diskIO, DiskRate |-> diskRate, NetConns |-> netConns]

DiskInfo(path, u) ==
    [Path |-> path, Total |-> u.Total, Used |-> u.Used, Free |-> u.Free,
     UsedPercent |-> u.UsedPercent]

\* var s SystemStats
ZeroStats ==
    [CPUUsage |-> 0, MemoryTotal |-> 0, MemoryUsed |-> 0, MemoryFree |-> 0,
     Disks |-> <<>>,
     Uptime |-> 0, Hostname |-> "", OS |-> "", Platform |-> "",
     NetSent |-> 0, NetRecv |-> 0,
     TopCPU |-> <<>>, TopMem |-> <<>>, TopDisk |-> <<>>, TopNet |-> <<>>]

\* *process.Process as returned by process.NewProcess(pid); obj tells the
\* objects of two calls apart
Handle(pid, obj) == [Pid |-> pid, obj |-> obj]

----------------------------------------------------------------------------
(* GetStats: the system-wide queries *)

SystemCPU(st, r) ==
    IF ~r.err /\ Len(r.vals) > 0
    THEN [st EXCEPT !.CPUUsage = r.vals[1]]
    ELSE st

MemoryResets(st, r) ==
    IF ~r.err
    THEN [st EXCEPT !.MemoryTotal = r.Total, !.MemoryUsed = r.Used, !.MemoryFree = r.Free]
    ELSE ZeroStats

Memory(st, r) ==
    IF ~r.err
    THEN [st EXCEPT !.MemoryTotal = r.Total, !.MemoryUsed = r.Used, !.MemoryFree = r.Free]
    ELSE st

\* strings.HasPrefix on strings kept as sequences of characters
HasPrefix(str, prefix) ==
    /\ Len(str) >= Len(prefix)
    /\ SubSeq(str, 1, Len(prefix)) = prefix

LoopPrefix == <<"/", "d", "e", "v", "/", "l", "o", "o", "p">>

RECURSIVE DiskLoopPlaceholder(_, _, _, _)
DiskLoopPlaceholder(parts, i, usage, acc) ==
    IF i > Len(parts) THEN acc
    ELSE LET p == parts[i] IN
         IF HasPrefix(p.Device, LoopPrefix)
         THEN DiskLoopPlaceholder(parts, i + 1, usage, acc)
         ELSE LET u == usage[p.Mountpoint] IN
              DiskLoopPlaceholder(parts, i + 1, usage, Append(acc, DiskInfo(p.Mountpoint, u)))

\* parts, err := disk.Partitions(false); for _, p := range parts { ... }
RECURSIVE DiskLoop(_, _, _, _)
DiskLoop(parts, i, usage, acc) ==
    IF i > Len(parts) THEN acc
    ELSE LET p == parts[i] IN
         IF HasPrefix(p.Device, LoopPrefix)
         THEN DiskLoop(parts, i + 1, usage, acc)
         ELSE LET u == usage[p.Mountpoint] IN
              IF ~u.err
              THEN DiskLoop(parts, i + 1, usage, Append(acc, DiskInfo(p.Mountpoint, u)))
              ELSE DiskLoop(parts, i + 1, usage, acc)

Disks(st, r, usage) ==
    IF ~r.err
    THEN [st EXCEPT !.Disks = DiskLoop(r.list, 1, usage, <<>>)]
    ELSE st

Host(st, r) ==
    IF ~r.err
    THEN [st EXCEPT !.Uptime = r.Uptime, !.Hostname = r.Hostname,
                    !.OS = r.OS, !.Platform = r.Platform]
    ELSE st

Net(st, r) ==
    IF ~r.err /\ Len(r.list) > 0
    THEN [st EXCEPT !.NetSent = r.list[1].BytesSent, !.NetRecv = r.list[1].BytesRecv]
    ELSE st

SystemWide(qq) ==
    Net(Host(Disks(Memory(SystemCPU(ZeroStats, qq.cpu), qq.mem), qq.parts, qq.usage),
             qq.host), qq.net)

----------------------------------------------------------------------------
(* GetStats: the process section *)

\* duration := now.Sub(m.lastTime).Seconds(); if duration <= 0 { duration = 1 }
ElapsedNoFloor(now, last) ==
    IF now - last < 0 THEN 1 ELSE now - last

Elapsed(now, last) ==
    IF now - last <= 0 THEN 1 ELSE now - last

\* diskIO = io.ReadBytes + io.WriteBytes, 0 when io is nil
DiskIOOf(io) ==
    IF ~io.nil THEN (io.ReadBytes + io.WriteBytes) % UintMod ELSE 0

\* what uint64(x) gives for a float64 x that is not a value of uint64
\* (infinite, NaN, negative, too large): it depends on the platform
ConvOutOfRange == {0, 2 ^ (Width - 1), UintMod - 1}

\* uint64(float64(diff) / duration)
RateConv(diff, dur, oor) ==
    IF dur > 0 /\ diff \div dur < UintMod THEN diff \div dur ELSE oor

DiskRateWrapped(ls, pid, diskIO, dur, oor) ==
    IF pid \in DOMAIN ls
    THEN RateConv((diskIO - ls[pid].DiskIO) % UintMod, dur, oor)
    ELSE 0

DiskRateZeroBase(ls, pid, diskIO, dur, oor) ==
    LET base == IF pid \in DOMAIN ls THEN ls[pid].DiskIO ELSE 0 IN
    IF diskIO >= base
    THEN RateConv((diskIO - base) % UintMod, dur, oor)
    ELSE 0

\* diskRate: 0 unless a cached sample exists and the counter did not decrease
DiskRate(ls, pid, diskIO, dur, oor) ==
    IF pid \in DOMAIN ls /\ diskIO >= ls[pid].DiskIO
    THEN RateConv((diskIO - ls[pid].DiskIO) % UintMod, dur, oor)
    ELSE 0

\* info := ProcessInfo{...} from the answers o of one process's queries
Sample(ls, pid, o, dur, oor) ==
    LET name     == o.name.val
        cpuVal   == IF o.cpu.err THEN 0 ELSE o.cpu.val
        memUsage == IF ~o.mem.nil THEN o.mem.RSS ELSE 0
        diskIO   == DiskIOOf(o.io)
        diskRate == DiskRate(ls, pid, diskIO, dur, oor)
        netConns == Len(o.conns.val)
    IN  ProcessInfo(pid, name, cpuVal, memUsage, diskIO, diskRate, netConns)

StoreSampleKeepClamped(ls, pid, info) ==
    IF pid \in DOMAIN ls /\ info.DiskIO < ls[pid].DiskIO
    THEN ls
    ELSE MapPut(ls, pid, info)

StoreSampleSkipIdle(ls, pid, info) ==
    IF info.DiskIO = 0 THEN ls ELSE MapPut(ls, pid, info)

\* m.lastStats[pid] = info
StoreSample(ls, pid, info) == MapPut(ls, pid, info)

CachedNever(pr, pid) == FALSE

\* existing, ok := m.procs[pid]
Cached(pr, pid) == pid \in DOMAIN pr

RECURSIVE ProcLoopBreak(_, _, _, _, _, _)
ProcLoopBreak(list, i, st, pq, dur, oor) ==
    IF i > Len(list) THEN st
    ELSE LET pid == list[i]
             o   == pq[pid]
             ok  == Cached(st.procs, pid)
             acq == IF ok THEN st.acquired ELSE st.acquired \cup {pid}
         IN  IF ~ok /\ o.acqErr
             THEN [st EXCEPT !.acquired = acq]
             ELSE LET procs1 == IF ok
                                THEN st.procs
                                ELSE MapPut(st.procs, pid, Handle(pid, o.handle))
                      info   == Sample(st.lastStats, pid, o, dur, oor)
                  IN  ProcLoopBreak(list, i + 1,
                                    [procs     |-> procs1,
                                     lastStats |-> StoreSample(st.lastStats, pid, info),
                                     procInfos |-> Append(st.procInfos, info),
                                     acquired  |-> acq],
                                    pq, dur, oor)

\* for _, pid := range pids { ... } over the state
\* st = [procs, lastStats, procInfos, acquired]
RECURSIVE ProcLoop(_, _, _, _, _, _)
ProcLoop(list, i, st, pq, dur, oor) ==
    IF i > Len(list) THEN st
    ELSE LET pid == list[i]
             o   == pq[pid]
             ok  == Cached(st.procs, pid)
             acq == IF ok THEN st.acquired ELSE st.acquired \cup {pid}
         IN  IF ~ok /\ o.acqErr
             THEN ProcLoop(list, i + 1, [st EXCEPT !.acquired = acq], pq, dur, oor)
             ELSE LET procs1 == IF ok
                                THEN st.procs
                                ELSE MapPut(st.procs, pid, Handle(pid, o.handle))
                      info   == Sample(st.lastStats, pid, o, dur, oor)
                  IN  ProcLoop(list, i + 1,
                               [procs     |-> procs1,
                                lastStats |-> StoreSample(st.lastStats, pid, info),
                                procInfos |-> Append(st.procInfos, info),
                                acquired  |-> acq],
                               pq, dur, oor)

CleanupProcsNone(pr, active) == pr

\* for pid := range m.procs { if !activePids[pid] { delete(m.procs, pid) } }
CleanupProcs(pr, active) == Restrict(pr, active)

CleanupLastStatsNone(ls, pr, active) == ls

\* ... delete(m.lastStats, pid), for the same PIDs
CleanupLastStats(ls, pr, active) ==
    Restrict(ls, (DOMAIN ls) \ ((DOMAIN pr) \ active))

----------------------------------------------------------------------------
(* Ranking *)

TopLimit == 5

LessCPUNoTie(p1, p2) == p1.CPU > p2.CPU

LessCPU(p1, p2) ==
    IF p1.CPU # p2.CPU THEN p1.CPU > p2.CPU ELSE p1.PID < p2.PID

LessMem(p1, p2) ==
    IF p1.Mem # p2.Mem THEN p1.Mem > p2.Mem ELSE p1.PID < p2.PID

LessDisk(p1, p2) ==
    IF p1.DiskRate # p2.DiskRate THEN p1.DiskRate > p2.DiskRate ELSE p1.PID < p2.PID

LessNet(p1, p2) ==
    IF p1.NetConns # p2.NetConns THEN p1.NetConns > p2.NetConns ELSE p1.PID < p2.PID

\* the `less` argument of getTop, named by the list it orders
Less(key, p1, p2) ==
    CASE key = "TopCPU"  -> LessCPU(p1, p2)
      [] key = "TopMem"  -> LessMem(p1, p2)
      [] key = "TopDisk" -> LessDisk(p1, p2)
      [] key = "TopNet"  -> LessNet(p1, p2)

\* sort.SliceStable: x moves left past every element it is less than
RECURSIVE InsertStable(_, _, _)
InsertStable(sorted, x, key) ==
    IF sorted = <<>> THEN <<x>>
    ELSE IF Less(key, x, sorted[Len(sorted)])
         THEN Append(InsertStable(SubSeq(sorted, 1, Len(sorted) - 1), x, key),
                     sorted[Len(sorted)])
         ELSE Append(sorted, x)

RECURSIVE SliceStable(_, _, _)
SliceStable(list, n, key) ==
    IF n = 0 THEN <<>>
    ELSE InsertStable(SliceStable(list, n - 1, key), list[n], key)

getTopOffByOne(pr, key, limit) ==
    IF Len(pr) = 0 THEN <<>>
    ELSE LET sorted == SliceStable(pr, Len(pr), key) IN
         IF Len(sorted) > limit + 1 THEN SubSeq(sorted, 1, limit) ELSE sorted

getTop(pr, key, limit) ==
    IF Len(pr) = 0 THEN <<>>
    ELSE LET sorted == SliceStable(pr, Len(pr), key) IN
         IF Len(sorted) > limit THEN SubSeq(sorted, 1, limit) ELSE sorted

\* // Sort and slice
SortAndSlice(st, infos) ==
    [st EXCEPT !.TopCPU  = getTop(infos, "TopCPU", TopLimit),
               !.TopMem  = getTop(infos, "TopMem", TopLimit),
               !.TopDisk = getTop(infos, "TopDisk", TopLimit),
               !.TopNet  = getTop(infos, "TopNet", TopLimit)]

----------------------------------------------------------------------------
(* GetStats *)

PidsFailedReadsClock(qq, s1) ==
    /\ measured' = 0
    /\ duration' = 0
    /\ procInfos' = <<>>
    /\ fresh' = {}
    /\ s' = s1
    /\ acquired' = {}
    /\ lastTime' = qq.now
    /\ UNCHANGED <<procs, lastStats, seen, gone, everGone, sampledAt>>

PidsFailedPurges(qq, s1) ==
    /\ measured' = 0
    /\ duration' = 0
    /\ procInfos' = <<>>
    /\ fresh' = {}
    /\ s' = s1
    /\ acquired' = {}
    /\ procs' = EmptyMap
    /\ lastStats' = EmptyMap
    /\ sampledAt' = EmptyMap
    /\ UNCHANGED <<lastTime, seen, gone, everGone>>

\* pids, err := process.Pids() with err != nil: the process section is not
\* entered and s1, the snapshot of the system-wide queries, is returned
PidsFailed(qq, s1) ==
    /\ measured' = 0
    /\ duration' = 0
    /\ procInfos' = <<>>
    /\ fresh' = {}
    /\ s' = s1
    /\ acquired' = {}
    /\ UNCHANGED <<procs, lastStats, lastTime, seen, gone, everGone, sampledAt>>

\* the poll that receives the answers qq from the provider; oor is what the
\* platform's float-to-uint conversion gives outside uint64
GetStatsWith(qq, oor) ==
    \E s1 \in {SystemWide(qq)} :
    /\ q' = qq
    /\ err' = GoNil
    /\ IF ~qq.pids.err
       THEN LET list   == qq.pids.list
                now    == qq.now
                active == Range(list)
            IN  \E dur \in {Elapsed(now, lastTime)} :
                \E st \in {ProcLoop(list, 1,
                                    [procs |-> procs, lastStats |-> lastStats,
                                     procInfos |-> <<>>, acquired |-> {}],
                                    qq.proc, dur, oor)} :
                /\ measured' = now - lastTime
                /\ duration' = dur
                /\ procInfos' = st.procInfos
                /\ fresh' = {st.procInfos[i].PID : i \in DOMAIN st.procInfos} \ DOMAIN lastStats
                /\ lastTime' = now
                /\ procs' = CleanupProcs(st.procs, active)
                /\ lastStats' = CleanupLastStats(st.lastStats, st.procs, active)
                /\ s' = SortAndSlice(s1, st.procInfos)
                /\ seen' = seen \cup active
                /\ gone' = (seen \cup active) \ active
                /\ everGone' = everGone \cup (seen \ active)
                /\ acquired' = st.acquired
                /\ sampledAt' =
                      LET stored == {st.procInfos[i].PID : i \in DOMAIN st.procInfos}
                      IN  [p \in DOMAIN lastStats' |->
                              IF p \in stored THEN now ELSE sampledAt[p]]
       ELSE PidsFailed(qq, s1)

\* the conversion only leaves uint64 when the divisor is not positive
GetStats(qq) ==
    \E oor \in (IF qq.pids.err \/ Elapsed(qq.now, lastTime) > 0 THEN {0} ELSE ConvOutOfRange) :
        GetStatsWith(qq, oor)

----------------------------------------------------------------------------
(* The provider's answers *)

CpuOk    == [err |-> FALSE, vals |-> <<37>>]
CpuEmpty == [err |-> FALSE, vals |-> <<>>]
CpuErr   == [err |-> TRUE, vals |-> <<>>]

MemOk  == [err |-> FALSE, Total |-> 16, Used |-> 9, Free |-> 7]
MemErr == [err |-> TRUE, Total |-> 0, Used |-> 0, Free |-> 0]

SdaDev  == <<"/", "d", "e", "v", "/", "s", "d", "a", "1">>
SdbDev  == <<"/", "d", "e", "v", "/", "s", "d", "b", "1">>
LoopDev == <<"/", "d", "e", "v", "/", "l", "o", "o", "p", "0">>
LooDev  == <<"/", "d", "e", "v", "/", "l", "o", "o">>

Partition(dev, mp) == [Device |-> dev, Mountpoint |-> mp]

PartsErr == [err |-> TRUE, list |-> <<>>]
PartsOf(list) == [err |-> FALSE, list |-> list]

UsageOk(total, used) ==
    [err |-> FALSE, Total |-> total, Used |-> used, Free |-> total - used,
     UsedPercent |-> (100 * used) \div total]
UsageErr == [err |-> TRUE, Total |-> 0, Used |-> 0, Free |-> 0, UsedPercent |-> 0]

HostOk  == [err |-> FALSE, Uptime |-> 3600, Hostname |-> "atlas", OS |-> "linux",
            Platform |-> "debian"]
HostErr == [err |-> TRUE, Uptime |-> 0, Hostname |-> "", OS |-> "", Platform |-> ""]

NetOf(sent, recv) == [err |-> FALSE, list |-> <<[BytesSent |-> sent, BytesRecv |-> recv]>>]
NetEmpty == [err |-> FALSE, list |-> <<>>]
NetErr   == [err |-> TRUE, list |-> <<>>]

PidsErr == [err |-> TRUE, list |-> <<>>]
PidsOf(list) == [err |-> FALSE, list |-> list]

\* every answer process.Pids() can give over the PIDs of P
PidsAnswers(P) == {PidsErr} \cup {PidsOf(l) : l \in UNION {Perms(S) : S \in SUBSET P}}

IONil == [nil |-> TRUE, ReadBytes |-> 0, WriteBytes |-> 0]
IOOf(r, w) == [nil |-> FALSE, ReadBytes |-> r, WriteBytes |-> w]

NameOf(str) == [err |-> FALSE, val |-> str]
NameErr == [err |-> TRUE, val |-> ""]
CpuPctOf(v) == [err |-> FALSE, val |-> v]
CpuPctErr == [err |-> TRUE, val |-> 0]
MemOf(rss) == [nil |-> FALSE, RSS |-> rss]
MemNil == [nil |-> TRUE, RSS |-> 0]
ConnsOf(list) == [err |-> FALSE, val |-> list]
ConnsErr == [err |-> TRUE, val |-> <<>>]

\* the answers about one enumerated process
ProcAns(name, cpu, mem, io, conns) ==
    [acqErr |-> FALSE, handle |-> 0, name |-> name, cpu |-> cpu, mem |-> mem, io |-> io,
     conns |-> conns]

\* process.NewProcess(pid) failed: nothing else is asked
AcqFailed ==
    [acqErr |-> TRUE, handle |-> 0, name |-> NameErr, cpu |-> CpuPctErr, mem |-> MemNil,
     io |-> IONil, conns |-> ConnsErr]

SysAllOk ==
    [cpu |-> CpuOk, mem |-> MemOk,
     parts |-> PartsOf(<<Partition(SdaDev, "/")>>),
     usage |-> [mp \in {"/"} |-> UsageOk(100, 40)],
     host |-> HostOk, net |-> NetOf(5, 7)]

MkQuery(sys, pa, now, po) ==
    [called |-> TRUE, cpu |-> sys.cpu, mem |-> sys.mem, parts |-> sys.parts,
     usage |-> sys.usage, host |-> sys.host, net |-> sys.net,
     pids |-> pa, now |-> now, proc |-> po]

\* before the first poll
NoQuery ==
    [called |-> FALSE, cpu |-> CpuErr, mem |-> MemErr, parts |-> PartsErr,
     usage |-> EmptyMap, host |-> HostErr, net |-> NetErr,
     pids |-> PidsErr, now |-> 0, proc |-> EmptyMap]

\* the answers about the enumerated processes: NewProcess is only called for
\* a PID that has no cached handle
ProcAnswers(pa, dom) ==
    {po \in [Range(pa.list) -> dom] :
        \A p \in Range(pa.list) : p \in DOMAIN procs => ~po[p].acqErr}

\* time.Now() is read only when the enumeration succeeded
Clock(pa) == IF pa.err THEN {0} ELSE 0..MaxClock

----------------------------------------------------------------------------
(* NewMonitor, and the engine polled by one caller at a time *)

HistoryLen == 40

\* no View has run yet
NoView == [shown |-> FALSE, lines |-> 0, maxOffset |-> 0, top |-> 0, visible |-> 0]

\* NewModel, before the program runs it
NewModel ==
    /\ started = FALSE
    /\ timers = 0
    /\ running = 0
    /\ inbox = <<>>
    /\ lastNetSent = 0
    /\ lastNetRecv = 0
    /\ netHistory = [i \in 1..HistoryLen |-> 0]
    /\ ticksHandled = 0
    /\ pollsStarted = 0
    /\ scrollOffset = 0
    /\ width = 0
    /\ height = 0
    /\ barWidth = 0
    /\ quit = FALSE
    /\ view = NoView

NewMonitor ==
    /\ procs = EmptyMap
    /\ lastStats = EmptyMap
    /\ lastTime \in 0..MaxClock
    /\ s = ZeroStats
    /\ err = GoNil
    /\ q = NoQuery
    /\ measured = 0
    /\ duration = 0
    /\ procInfos = <<>>
    /\ fresh = {}
    /\ seen = {}
    /\ gone = {}
    /\ everGone = {}
    /\ sampledAt = EmptyMap
    /\ acquired = {}

SpecProcDom ==
    {AcqFailed} \cup
    {ProcAns(NameOf("proc"), CpuPctOf(10), MemOf(20), io, ConnsOf(<<1>>)) :
        io \in {IONil, IOOf(1, 2), IOOf(3, 5)}}

Init ==
    /\ NewMonitor
    /\ NewModel
    /\ polls = 0

Poll ==
    /\ \E pa \in PidsAnswers(PIDs) : \E now \in Clock(pa) :
         \E po \in ProcAnswers(pa, SpecProcDom) :
            GetStats(MkQuery(SysAllOk, pa, now, po))
    /\ UNCHANGED polls
    /\ UNCHANGED uiVars

Next == Poll

Spec == Init /\ [][Next]_vars

----------------------------------------------------------------------------
(* A scripted run: PID 100 is polled once a second and its counter reads  *)
(* 1000, 3000, 2500 and then anything                                      *)

MaxPolls == 5

IOScript == <<IOOf(1000, 0), IOOf(1000, 2000), IOOf(2000, 500)>>

IOAfterScript == {IONil, IOOf(1000, 0), IOOf(1000, 2000), IOOf(2000, 500)}

ScenarioProcDom(io) ==
    {ProcAns(NameOf("proc"), CpuPctOf(10), MemOf(20), i, ConnsOf(<<1>>)) : i \in io}

ScenarioInit ==
    /\ NewMonitor
    /\ NewModel
    /\ lastTime = 0
    /\ polls = 0

ScenarioPoll ==
    /\ polls < MaxPolls
    /\ polls' = polls + 1
    /\ \E list \in {<<100>>, <<100, 101>>, <<101, 100>>} :
       \E io100 \in (IF polls < Len(IOScript) THEN {IOScript[polls + 1]} ELSE IOAfterScript) :
       \E po \in ProcAnswers(PidsOf(list), {AcqFailed} \cup ScenarioProcDom(IOAfterScript)) :
          /\ po[100] \in ScenarioProcDom({io100})
          /\ GetStats(MkQuery(SysAllOk, PidsOf(list), polls, po))
    /\ UNCHANGED uiVars

ScenarioNext == ScenarioPoll

SpecScenario == ScenarioInit /\ [][ScenarioNext]_vars

----------------------------------------------------------------------------
(* A scripted run: PID 100 is polled once a second, its cumulative counter *)
(* stays at 3 bytes, and proc.IOCounters() fails on the second poll only   *)

OutageScript == <<IOOf(1, 2), IONil, IOOf(1, 2)>>

OutageAfterScript == {IONil, IOOf(1, 2), IOOf(3, 5)}

OutageInit ==
    /\ NewMonitor
    /\ NewModel
    /\ lastTime = 0
    /\ polls = 0

OutagePoll ==
    /\ polls < MaxPolls
    /\ polls' = polls + 1
    /\ \E list \in {<<100>>, <<100, 101>>, <<101, 100>>} :
       \E io100 \in (IF polls < Len(OutageScript)
                     THEN {OutageScript[polls + 1]} ELSE OutageAfterScript) :
       \E po \in ProcAnswers(PidsOf(list),
                              {AcqFailed} \cup ScenarioProcDom(OutageAfterScript)) :
          /\ po[100] \in ScenarioProcDom({io100})
          /\ GetStats(MkQuery(SysAllOk, PidsOf(list), polls + 1, po))
    /\ UNCHANGED uiVars

OutageNext == OutagePoll

SpecOutage == OutageInit /\ [][OutageNext]_vars

----------------------------------------------------------------------------
(* The ranking applied to lists of samples *)

MaxProcs == 12

RankPIDs == {1, 2, 3, 4}

\* CPU, Mem, DiskRate, NetConns of a sample
Profiles == <<[CPU |-> 0, Mem |-> 20, DiskRate |-> 0, NetConns |-> 1],
              [CPU |-> 10, Mem |-> 20, DiskRate |-> 5, NetConns |-> 0],
              [CPU |-> 10, Mem |-> 7, DiskRate |-> 5, NetConns |-> 1]>>

RankSample(pid, pr) ==
    ProcessInfo(pid, "proc", pr.CPU, pr.Mem, 100, pr.DiskRate, pr.NetConns)

\* every enumeration order of up to four samples, with every profile
ShortInputs ==
    UNION {UNION {{[i \in DOMAIN order |-> RankSample(order[i], Profiles[pf[order[i]]])] :
                      pf \in [S -> DOMAIN Profiles]} :
                  order \in Perms(S)} :
           S \in SUBSET RankPIDs}

\* up to MaxProcs samples, PIDs ascending or descending, profiles in a pattern
LongInputs ==
    {[i \in 1..n |-> LET pid == IF up THEN 200 + i ELSE 201 + n - i
                     IN  RankSample(pid, Profiles[((pid * k) % Len(Profiles)) + 1])] :
        n \in 0..MaxProcs, up \in BOOLEAN, k \in 0..2}

RankInit ==
    /\ procs = EmptyMap
    /\ lastStats = EmptyMap
    /\ lastTime = 0
    /\ s = ZeroStats
    /\ err = GoNil
    /\ q = NoQuery
    /\ measured = 0
    /\ duration = 0
    /\ fresh = {}
    /\ seen = {}
    /\ gone = {}
    /\ everGone = {}
    /\ sampledAt = EmptyMap
    /\ acquired = {}
    /\ polls = 0
    /\ NewModel
    /\ procInfos \in ShortInputs \cup LongInputs

\* lines 205-232 on the samples of procInfos
RankApply ==
    /\ polls = 0
    /\ polls' = 1
    /\ s' = SortAndSlice(s, procInfos)
    /\ UNCHANGED <<procs, lastStats, lastTime, err, q, measured, duration, procInfos,
                   fresh, seen, gone, everGone, sampledAt, acquired>>
    /\ UNCHANGED uiVars

RankNext == RankApply

SpecRank == RankInit /\ [][RankNext]_vars

----------------------------------------------------------------------------
(* The engine polled while provider queries fail *)

SysAllErr ==
    [cpu |-> CpuErr, mem |-> MemErr, parts |-> PartsErr,
     usage |-> [mp \in {"/"} |-> UsageErr], host |-> HostErr, net |-> NetErr]

\* every combination of failing system-wide queries (disk.Usage is only
\* called when disk.Partitions succeeded)
FailSysDom ==
    {sys \in [cpu : {CpuOk, CpuErr}, mem : {MemOk, MemErr},
              parts : {PartsOf(<<Partition(SdaDev, "/")>>), PartsErr},
              usage : {[mp \in {"/"} |-> UsageOk(100, 40)], [mp \in {"/"} |-> UsageErr]},
              host : {HostOk, HostErr}, net : {NetOf(5, 7), NetErr}] :
        sys.parts.err => sys.usage["/"].err}

\* every combination of failing queries about one process
FailProcDom ==
    {AcqFailed} \cup
    {ProcAns(name, cpu, mem, io, conns) :
        name \in {NameOf("proc"), NameErr}, cpu \in {CpuPctOf(10), CpuPctErr},
        mem \in {MemOf(20), MemNil}, io \in {IOOf(1000, 500), IONil},
        conns \in {ConnsOf(<<1, 2>>), ConnsErr}}

FailProcFew ==
    {AcqFailed,
     ProcAns(NameOf("proc"), CpuPctOf(10), MemOf(20), IOOf(1000, 500), ConnsOf(<<1, 2>>)),
     ProcAns(NameErr, CpuPctErr, MemNil, IONil, ConnsErr),
     ProcAns(NameOf("proc"), CpuPctOf(10), MemOf(20), IONil, ConnsOf(<<1, 2>>))}

FailInit ==
    /\ NewMonitor
    /\ NewModel
    /\ lastTime = 0
    /\ polls = 0

FailPoll ==
    /\ \E pa \in {PidsErr, PidsOf(<<100>>)} : \E now \in (IF pa.err THEN {0} ELSE {1}) :
         \/ \E sys \in FailSysDom : \E po \in ProcAnswers(pa, FailProcFew) :
               GetStats(MkQuery(sys, pa, now, po))
         \/ \E sys \in {SysAllOk, SysAllErr} : \E po \in ProcAnswers(pa, FailProcDom) :
               GetStats(MkQuery(sys, pa, now, po))
    /\ UNCHANGED polls
    /\ UNCHANGED uiVars

FailNext == FailPoll

SpecFail == FailInit /\ [][FailNext]_vars

----------------------------------------------------------------------------
(* The program loop of pkg/ui: the runtime runs every command of a batch   *)
(* in a goroutine of its own and gives the messages to Update one by one   *)

MaxTicks == 3

TickMsg == [type |-> "tickMsg", NetSent |-> 0, NetRecv |-> 0]

\* the fields of the SystemStats message that Update reads
StatsMsg(sent, recv) == [type |-> "SystemStats", NetSent |-> sent, NetRecv |-> recv]

\* NetSent and NetRecv of a snapshot: zero when net.IOCounters failed
UINetDom == {<<0, 0>>, <<5, 7>>, <<9, 9>>}

Remove(seq, i) == SubSeq(seq, 1, i - 1) \o SubSeq(seq, i + 1, Len(seq))

\* model.Init: tea.Batch(tick(), m.updateStats())
ModelInit ==
    /\ ~started
    /\ started' = TRUE
    /\ timers' = timers + 1
    /\ running' = running + 1
    /\ pollsStarted' = pollsStarted + 1
    /\ UNCHANGED <<inbox, lastNetSent, lastNetRecv, netHistory, ticksHandled>>
    /\ UNCHANGED <<engineVars, polls, scrollVars>>

\* tick: one second after the command started the timer sends a tickMsg
TickFires ==
    /\ timers > 0
    /\ timers' = timers - 1
    /\ inbox' = Append(inbox, TickMsg)
    /\ UNCHANGED <<started, running, lastNetSent, lastNetRecv, netHistory, ticksHandled,
                   pollsStarted>>
    /\ UNCHANGED <<engineVars, polls, scrollVars>>

\* updateStats: GetStats returns and its snapshot is sent as a message
UpdateStatsReturns ==
    /\ running > 0
    /\ running' = running - 1
    /\ \E net \in UINetDom : inbox' = Append(inbox, StatsMsg(net[1], net[2]))
    /\ UNCHANGED <<started, timers, lastNetSent, lastNetRecv, netHistory, ticksHandled,
                   pollsStarted>>
    /\ UNCHANGED <<engineVars, polls, scrollVars>>

UpdateTickMsgNoTick ==
    /\ ticksHandled < MaxTicks
    /\ \E i \in DOMAIN inbox :
          /\ inbox[i].type = "tickMsg"
          /\ inbox' = Remove(inbox, i)
    /\ running' = running + 1
    /\ ticksHandled' = ticksHandled + 1
    /\ pollsStarted' = pollsStarted + 1
    /\ UNCHANGED <<started, timers, lastNetSent, lastNetRecv, netHistory>>
    /\ UNCHANGED <<engineVars, polls, scrollVars>>

\* Update, case tickMsg: tea.Batch(tick(), m.updateStats())
UpdateTickMsg ==
    /\ ticksHandled < MaxTicks
    /\ \E i \in DOMAIN inbox :
          /\ inbox[i].type = "tickMsg"
          /\ inbox' = Remove(inbox, i)
    /\ timers' = timers + 1
    /\ running' = running + 1
    /\ ticksHandled' = ticksHandled + 1
    /\ pollsStarted' = pollsStarted + 1
    /\ UNCHANGED <<started, lastNetSent, lastNetRecv, netHistory>>
    /\ UNCHANGED <<engineVars, polls, scrollVars>>

UpdateSystemStatsNoGuard ==
    /\ \E i \in DOMAIN inbox :
          /\ inbox[i].type = "SystemStats"
          /\ inbox' = Remove(inbox, i)
          /\ LET msg       == inbox[i]
                 currTotal == (msg.NetSent + msg.NetRecv) % UintMod
                 prevTotal == (lastNetSent + lastNetRecv) % UintMod
                 bandwidth == IF currTotal >= prevTotal
                              THEN currTotal - prevTotal
                              ELSE 0
             IN  /\ netHistory' = Append(SubSeq(netHistory, 2, Len(netHistory)), bandwidth)
                 /\ lastNetSent' = msg.NetSent
                 /\ lastNetRecv' = msg.NetRecv
    /\ UNCHANGED <<started, timers, running, ticksHandled, pollsStarted>>
    /\ UNCHANGED <<engineVars, polls, scrollVars>>

\* Update, case stats.SystemStats
UpdateSystemStats ==
    /\ \E i \in DOMAIN inbox :
          /\ inbox[i].type = "SystemStats"
          /\ inbox' = Remove(inbox, i)
          /\ LET msg       == inbox[i]
                 currTotal == (msg.NetSent + msg.NetRecv) % UintMod
                 prevTotal == (lastNetSent + lastNetRecv) % UintMod
                 bandwidth == IF prevTotal > 0 /\ currTotal >= prevTotal
                              THEN currTotal - prevTotal
                              ELSE 0
             IN  /\ netHistory' = Append(SubSeq(netHistory, 2, Len(netHistory)), bandwidth)
                 /\ lastNetSent' = msg.NetSent
                 /\ lastNetRecv' = msg.NetRecv
    /\ UNCHANGED <<started, timers, running, ticksHandled, pollsStarted>>
    /\ UNCHANGED <<engineVars, polls, scrollVars>>

UIInit ==
    /\ NewMonitor
    /\ lastTime = 0
    /\ NewModel
    /\ polls = 0

UINext ==
    \/ ModelInit
    \/ TickFires
    \/ UpdateStatsReturns
    \/ UpdateTickMsg
    \/ UpdateSystemStats

SpecUI == UIInit /\ [][UINext]_vars

----------------------------------------------------------------------------
(* The partitions of a host with a snap loop device, polled with every     *)
(* order of up to MaxParts partitions and every outcome of disk.Usage      *)

MaxParts == 3

DiskParts ==
    {Partition(SdaDev, "/"), Partition(SdbDev, "/data"),
     Partition(LoopDev, "/snap"), Partition(LooDev, "/mnt")}

\* what disk.Usage(mp) returns when it succeeds
MountUsage(mp) ==
    CASE mp = "/"     -> UsageOk(100, 40)
      [] mp = "/data" -> UsageOk(200, 50)
      [] mp = "/snap" -> UsageOk(10, 10)
      [] OTHER        -> UsageOk(50, 5)

PartLists ==
    UNION {Perms(S) : S \in {T \in SUBSET DiskParts : Cardinality(T) <= MaxParts}}

\* which mounts' disk.Usage fails; a loop device's mount would answer, but
\* is never asked
UsageAnswers(list) ==
    {u \in [{list[i].Mountpoint : i \in DOMAIN list} -> BOOLEAN] :
        \A i \in DOMAIN list : list[i].Device = LoopDev => ~u[list[i].Mountpoint]}

DiskSys(parts, failing) ==
    [SysAllOk EXCEPT !.parts = parts,
                     !.usage = [mp \in DOMAIN failing |->
                                   IF failing[mp] THEN UsageErr ELSE MountUsage(mp)]]

DisksInit ==
    /\ NewMonitor
    /\ lastTime = 0
    /\ NewModel
    /\ polls = 0

DisksPoll ==
    /\ \/ GetStats(MkQuery(DiskSys(PartsErr, EmptyMap), PidsOf(<<>>), 1, EmptyMap))
       \/ \E list \in PartLists : \E failing \in UsageAnswers(list) :
            GetStats(MkQuery(DiskSys(PartsOf(list), failing), PidsOf(<<>>), 1, EmptyMap))
    /\ UNCHANGED polls
    /\ UNCHANGED uiVars

DisksNext == DisksPoll

SpecDisks == DisksInit /\ [][DisksNext]_vars

----------------------------------------------------------------------------
(* Polls whose process.NewProcess calls return distinguishable objects     *)

HandleObjs == {1, 2}

HandleProcDom ==
    {AcqFailed} \cup
    {[ProcAns(NameOf("proc"), CpuPctOf(10), MemOf(20), IOOf(1, 2), ConnsOf(<<1>>))
         EXCEPT !.handle = h] : h \in HandleObjs}

HandlesInit ==
    /\ NewMonitor
    /\ lastTime = 0
    /\ NewModel
    /\ polls = 0

HandlesPoll ==
    /\ \E pa \in PidsAnswers(PIDs) : \E po \in ProcAnswers(pa, HandleProcDom) :
            GetStats(MkQuery(SysAllOk, pa, IF pa.err THEN 0 ELSE 1, po))
    /\ UNCHANGED polls
    /\ UNCHANGED uiVars

HandlesNext == HandlesPoll

SpecHandles == HandlesInit /\ [][HandlesNext]_vars

----------------------------------------------------------------------------
(* Keys, window sizes and rendering: the runtime gives key and size        *)
(* messages to Update and calls View on the model Update returned          *)

MaxScroll == 6

Keys == {"q", "ctrl+c", "up", "k", "down", "j", "x"}

\* Width and Height of a tea.WindowSizeMsg
WindowSizes == {<<20, 5>>, <<60, 10>>, <<100, 10>>, <<100, 30>>}

\* len(strings.Split(fullContent, "\n")) of a rendered dashboard
ContentLines == {8, 12}

\* barWidth of case tea.WindowSizeMsg
BarWidth(w) ==
    LET b1 == IF w < 80 THEN w - 14 ELSE (w \div 2) - 14
    IN  IF b1 < 10 THEN 10 ELSE b1

\* Update, case tea.KeyMsg
UpdateKeyMsg ==
    /\ ~quit
    /\ \E key \in Keys :
          /\ key \in {"down", "j"} => scrollOffset < MaxScroll
          /\ quit' = (key \in {"q", "ctrl+c"})
          /\ scrollOffset' =
                CASE key \in {"up", "k"}   -> IF scrollOffset > 0
                                              THEN scrollOffset - 1 ELSE scrollOffset
                  [] key \in {"down", "j"} -> scrollOffset + 1
                  [] OTHER                 -> scrollOffset
    /\ view' = NoView
    /\ UNCHANGED <<width, height, barWidth>>
    /\ UNCHANGED <<engineVars, polls, loopVars>>

\* Update, case tea.WindowSizeMsg
UpdateWindowSizeMsg ==
    /\ ~quit
    /\ \E size \in WindowSizes :
          /\ width' = size[1]
          /\ height' = size[2]
          /\ barWidth' = BarWidth(size[1])
    /\ view' = NoView
    /\ UNCHANGED <<scrollOffset, quit>>
    /\ UNCHANGED <<engineVars, polls, loopVars>>

\* the clamping and the cut of View, made on View's own copy of the model
\* (the receiver is a value): lines is the length of the content
Visible(lines, h, offset) ==
    LET maxOffset == IF lines - h < 0 THEN 0 ELSE lines - h
        off1      == IF offset > maxOffset THEN maxOffset ELSE offset
        off2      == IF off1 < 0 THEN 0 ELSE off1
        rest      == lines - off2
    IN  [shown |-> TRUE, lines |-> lines, maxOffset |-> maxOffset, top |-> off2,
         visible |-> IF rest > h THEN h ELSE rest]

\* View: the model the program holds is not changed
View ==
    /\ ~quit
    /\ ~view.shown
    /\ \E lines \in ContentLines : view' = Visible(lines, height, scrollOffset)
    /\ UNCHANGED <<scrollOffset, width, height, barWidth, quit>>
    /\ UNCHANGED <<engineVars, polls, loopVars>>

ScrollInit ==
    /\ NewMonitor
    /\ lastTime = 0
    /\ NewModel
    /\ polls = 0

ScrollNext ==
    \/ UpdateKeyMsg
    \/ UpdateWindowSizeMsg
    \/ View

SpecScroll == ScrollInit /\ [][ScrollNext]_vars

----------------------------------------------------------------------------
(* Properties of the caches *)

Enumerated == q.called /\ ~q.pids.err

TopPIDs(st) ==
    {st.TopCPU[i].PID : i \in DOMAIN st.TopCPU} \cup
    {st.TopMem[i].PID : i \in DOMAIN st.TopMem} \cup
    {st.TopDisk[i].PID : i \in DOMAIN st.TopDisk} \cup
    {st.TopNet[i].PID : i \in DOMAIN st.TopNet}

\* C1 as stated: after every poll, whatever the provider answered, every key
\* of procs is a PID of the enumeration that poll obtained (none when the
\* enumeration failed).
C1_PurgedEveryPoll ==
    q.called => DOMAIN procs \subseteq Range(q.pids.list)

\* C1, amended: after every poll whose enumeration succeeded, every key of
\* procs is a PID of that poll's enumeration.
C1_PurgedWhenEnumerated ==
    Enumerated => DOMAIN procs \subseteq Range(q.pids.list)

\* a poll enumerated one cached PID and missed a PID it had sampled before
C1_Witness ==
    /\ Enumerated
    /\ DOMAIN procs # {}
    /\ \E p \in gone : p \notin fresh /\ p \notin DOMAIN procs

\* C2 as stated: a PID that a poll has once missed is from then on a key of
\* neither cache and is in no Top-N list of any later snapshot.
C2_NeverReappears ==
    \A p \in everGone :
        /\ p \notin DOMAIN procs
        /\ p \notin DOMAIN lastStats
        /\ p \notin TopPIDs(s)

\* C2, amended: a previously seen PID missing from the latest successful
\* enumeration is a key of neither cache and is in no Top-N list of the
\* snapshot, until a poll enumerates it again.
C2_AbsentWhileGone ==
    \A p \in gone :
        /\ p \notin DOMAIN procs
        /\ p \notin DOMAIN lastStats
        /\ p \notin TopPIDs(s)

\* a PID was missed by the latest enumeration while another one is ranked
C2_Witness ==
    /\ Enumerated
    /\ gone # {}
    /\ TopPIDs(s) # {}
    /\ DOMAIN lastStats # {}

----------------------------------------------------------------------------
(* Properties of the disk rate *)

\* C4: a PID sampled with a cached sample c1, a reading c2 and t elapsed
\* seconds is reported with DiskRate (c2 - c1) div t when c2 >= c1 and with 0
\* when c2 < c1, in the samples and in the ranked list alike.
C4_Step ==
    (q'.called /\ ~q'.pids.err) =>
        \A info \in Range(procInfos') \cup Range(s'.TopDisk) :
            info.PID \in DOMAIN lastStats =>
                LET c1 == lastStats[info.PID].DiskIO
                    c2 == info.DiskIO
                    t  == duration'
                IN  /\ t > 0
                    /\ c2 >= c1 => info.DiskRate = (c2 - c1) \div t
                    /\ c2 < c1 => info.DiskRate = 0
                    /\ info.DiskRate >= 0
                    /\ info.DiskRate <= c2

C4_RateIsDifferenceOverTime == [][C4_Step]_vars

\* a reading of 8 bytes followed a cached one of 3 bytes two seconds earlier
C4_Witness ==
    /\ Enumerated
    /\ duration = 2
    /\ \E i \in DOMAIN procInfos :
          /\ procInfos[i].PID \notin fresh
          /\ procInfos[i].DiskIO = 8
          /\ procInfos[i].DiskRate = 2

\* C6: a PID sampled while lastStats has no entry for it is reported with
\* DiskRate 0, whatever its counter.
C6_Step ==
    (q'.called /\ ~q'.pids.err) =>
        \A info \in Range(procInfos') \cup Range(s'.TopDisk) :
            info.PID \notin DOMAIN lastStats => info.DiskRate = 0

C6_FirstSightRateZero == [][C6_Step]_vars

\* a PID that was purged is enumerated again with a counter above zero
C6_Witness ==
    \E i \in DOMAIN procInfos :
        /\ procInfos[i].PID \in fresh \cap everGone
        /\ procInfos[i].DiskIO > 0
        /\ procInfos[i].DiskRate = 0

\* C7: the divisor of a poll is positive: it is the measured now - lastTime
\* when that is positive and 1 second otherwise.
C7_DivisorPositive ==
    Enumerated =>
        /\ duration > 0
        /\ measured > 0 => duration = measured
        /\ measured <= 0 => duration = 1

\* the clock did not advance between two polls and a rate was computed
C7_Witness ==
    /\ Enumerated
    /\ measured <= 0
    /\ duration = 1
    /\ \E i \in DOMAIN procInfos :
          procInfos[i].PID \notin fresh /\ procInfos[i].DiskRate > 0

\* the sample of PID pid among the samples of the last poll
SampleOf(pid) ==
    procInfos[CHOOSE i \in DOMAIN procInfos : procInfos[i].PID = pid]

\* C5: in the scripted run (readings 1000, 3000, 2500 one second apart) the
\* rates are 0, 2000, 0, a fourth reading r >= 2500 gives r - 2500, and after
\* every poll the cached baseline is the reading that poll reported.
C5_BaselineReplaced ==
    polls >= 1 =>
        LET info == SampleOf(100) IN
        /\ lastStats[100] = info
        /\ polls = 1 => info.DiskIO = 1000 /\ info.DiskRate = 0
        /\ polls = 2 => info.DiskIO = 3000 /\ info.DiskRate = 2000
        /\ polls = 3 => info.DiskIO = 2500 /\ info.DiskRate = 0
        /\ (polls = 4 /\ info.DiskIO >= 2500) => info.DiskRate = info.DiskIO - 2500

\* the fourth poll read 3000 after the clamped third poll
C5_Witness ==
    /\ polls = 4
    /\ SampleOf(100).DiskIO = 3000
    /\ SampleOf(100).DiskRate = 500

----------------------------------------------------------------------------
(* Properties of the ranking *)

TopKeys == {"TopCPU", "TopMem", "TopDisk", "TopNet"}

Metric(key, p) ==
    CASE key = "TopCPU"  -> p.CPU
      [] key = "TopMem"  -> p.Mem
      [] key = "TopDisk" -> p.DiskRate
      [] key = "TopNet"  -> p.NetConns

\* x ranks before y: larger metric, or equal metric and smaller PID
Before(key, x, y) ==
    \/ Metric(key, x) > Metric(key, y)
    \/ Metric(key, x) = Metric(key, y) /\ x.PID < y.PID

\* C8: each Top-N list holds, in order, the min(5, n) samples that rank first
\* by metric descending and PID ascending: its i-th entry is the sample that
\* exactly i - 1 samples rank before, whatever the order of enumeration.
C8_TopIsRankedPrefix ==
    polls = 1 =>
        \A key \in TopKeys :
            LET top == s[key]
                all == Range(procInfos)
            IN  /\ Len(top) = Min(TopLimit, Cardinality(all))
                /\ \A i \in DOMAIN top :
                      /\ top[i] \in all
                      /\ Cardinality({x \in all : Before(key, x, top[i])}) = i - 1

\* more than five samples, two of them tied on CPU and enumerated with the
\* larger PID first, both ranked
C8_Witness ==
    /\ polls = 1
    /\ Len(procInfos) > TopLimit
    /\ \E i, j \in DOMAIN procInfos :
          /\ i < j
          /\ procInfos[i].CPU = procInfos[j].CPU
          /\ procInfos[i].PID > procInfos[j].PID
          /\ procInfos[i] \in Range(s.TopCPU)
          /\ procInfos[j] \in Range(s.TopCPU)

\* C9: each of the four lists has min(5, n) entries for n samples, so never
\* more than 5, 5 for 12 samples, 3 for 3 and none for 0.
C9_TopLength ==
    polls = 1 =>
        \A key \in TopKeys :
            LET n == Len(procInfos) IN
            /\ Len(s[key]) <= 5
            /\ n >= 5 => Len(s[key]) = 5
            /\ n < 5 => Len(s[key]) = n
            /\ n = 12 => Len(s[key]) = 5
            /\ n = 3 => Len(s[key]) = 3
            /\ n = 0 => s[key] = <<>>

\* twelve samples were ranked
C9_Witness ==
    /\ polls = 1
    /\ Len(procInfos) = 12
    /\ \A key \in TopKeys : Len(s[key]) = 5

----------------------------------------------------------------------------
(* Properties of a poll whose queries fail *)

\* what the queries o about one process should leave in its sample
FieldsFollow(info, o) ==
    /\ info.Name = (IF o.name.err THEN "" ELSE o.name.val)
    /\ info.CPU = (IF o.cpu.err THEN 0 ELSE o.cpu.val)
    /\ info.Mem = (IF o.mem.nil THEN 0 ELSE o.mem.RSS)
    /\ info.DiskIO = (IF o.io.nil THEN 0 ELSE o.io.ReadBytes + o.io.WriteBytes)
    /\ info.NetConns = (IF o.conns.err THEN 0 ELSE Len(o.conns.val))

\* C10: whichever queries fail, GetStats returns a nil error and a snapshot
\* in which each field is the value its own query gave, or the zero value
\* when that query failed.
C10_DegradesPerField ==
    q.called =>
        /\ err = GoNil
        /\ s.CPUUsage = (IF q.cpu.err THEN 0 ELSE q.cpu.vals[1])
        /\ <<s.MemoryTotal, s.MemoryUsed, s.MemoryFree>> =
              (IF q.mem.err THEN <<0, 0, 0>> ELSE <<q.mem.Total, q.mem.Used, q.mem.Free>>)
        /\ s.Disks = (IF q.parts.err \/ q.usage["/"].err THEN <<>>
                      ELSE <<[Path |-> "/", Total |-> q.usage["/"].Total,
                              Used |-> q.usage["/"].Used, Free |-> q.usage["/"].Free,
                              UsedPercent |-> q.usage["/"].UsedPercent]>>)
        /\ <<s.Uptime, s.Hostname, s.OS, s.Platform>> =
              (IF q.host.err THEN <<0, "", "", "">>
               ELSE <<q.host.Uptime, q.host.Hostname, q.host.OS, q.host.Platform>>)
        /\ <<s.NetSent, s.NetRecv>> =
              (IF q.net.err THEN <<0, 0>>
               ELSE <<q.net.list[1].BytesSent, q.net.list[1].BytesRecv>>)
        /\ \A key \in TopKeys :
              IF q.pids.err THEN s[key] = <<>>
              ELSE \A p \in Range(q.pids.list) :
                      IF q.proc[p].acqErr THEN p \notin TopPIDs(s)
                      ELSE \E i \in DOMAIN s[key] :
                              s[key][i].PID = p /\ FieldsFollow(s[key][i], q.proc[p])

\* CPU, disk usage and host failed, memory and network did not; of the
\* process only the I/O counters failed
C10_Witness ==
    /\ q.called
    /\ q.cpu.err /\ ~q.mem.err /\ ~q.parts.err /\ q.usage["/"].err /\ q.host.err /\ ~q.net.err
    /\ ~q.pids.err
    /\ s.MemoryTotal = 16 /\ s.NetRecv = 7 /\ s.CPUUsage = 0 /\ s.Disks = <<>>
    /\ Len(s.TopMem) = 1
    /\ s.TopMem[1].DiskIO = 0 /\ s.TopMem[1].Mem = 20 /\ s.TopMem[1].NetConns = 2

----------------------------------------------------------------------------
(* Properties of the program loop *)

\* C3: GetStats never executes twice at the same time on the Monitor: a poll
\* starts only after the previous one has returned.
C3_OnePollAtATime == running <= 1

----------------------------------------------------------------------------
(* Failed handle acquisition *)

\* the enumerated PIDs of the poll answered by qq whose handle acquisition
\* was tried and failed, given the handle cache pr the poll started with
AcqFailures(qq, pr) ==
    {p \in Range(qq.pids.list) : p \notin DOMAIN pr /\ qq.proc[p].acqErr}

\* C11: a PID whose handle acquisition fails is skipped for this poll only:
\* it gets no entry in procs or lastStats and no sample in a Top-N list, the
\* other enumerated PIDs are sampled exactly as the poll without the failing
\* PIDs samples them, and every enumerated PID without a cached handle has
\* its acquisition attempted, so a skipped PID is tried again by the next
\* poll that enumerates it.
C11_FailedAcquisitionSkipsOnePID ==
    [][ (q'.called /\ ~q'.pids.err) =>
          LET list   == q'.pids.list
              failed == AcqFailures(q', procs)
              others == SelectSeq(list, LAMBDA p : p \notin failed)
          IN  \E alone \in {ProcLoop(others, 1,
                                     [procs |-> procs, lastStats |-> lastStats,
                                      procInfos |-> <<>>, acquired |-> {}],
                                     q'.proc, duration', 0)} :
              /\ failed \cap DOMAIN procs' = {}
              /\ failed \cap DOMAIN lastStats' = {}
              /\ failed \cap TopPIDs(s') = {}
              /\ procInfos' = alone.procInfos
              /\ \A p \in Range(others) :
                    /\ p \in DOMAIN procs' /\ procs'[p] = alone.procs[p]
                    /\ p \in DOMAIN lastStats' /\ lastStats'[p] = alone.lastStats[p]
              /\ acquired' = Range(list) \ DOMAIN procs ]_vars

\* a poll skipped PID 100 and measured a rate for PID 101 listed after it
C11_Witness ==
    /\ Enumerated
    /\ q.pids.list = <<100, 101>>
    /\ q.proc[100].acqErr
    /\ 100 \in acquired
    /\ 100 \notin DOMAIN procs
    /\ 101 \in DOMAIN lastStats /\ lastStats[101].DiskRate > 0
    /\ Len(s.TopDisk) = 1

----------------------------------------------------------------------------
(* The Disks list *)

\* the positions of the last partition answer that yield a record
KeptParts ==
    {i \in DOMAIN q.parts.list :
        /\ q.parts.list[i].Device # LoopDev
        /\ ~q.usage[q.parts.list[i].Mountpoint].err}

\* the k-th of them in partition order
KeptAt(k) == CHOOSE i \in KeptParts : Cardinality({j \in KeptParts : j < i}) = k - 1

\* C12: the Disks list of a snapshot is, in partition order, one record per
\* enumerated partition whose device does not start with "/dev/loop" and
\* whose usage query succeeded, and nothing else.
C12_DisksAreUsablePartitions ==
    q.called =>
        /\ Len(s.Disks) = Cardinality(KeptParts)
        /\ \A k \in 1..Len(s.Disks) :
              LET part == q.parts.list[KeptAt(k)]
                  u    == q.usage[part.Mountpoint]
              IN  s.Disks[k] = [Path |-> part.Mountpoint, Total |-> u.Total,
                                Used |-> u.Used, Free |-> u.Free,
                                UsedPercent |-> u.UsedPercent]

\* three mounts, the usage query of the middle one failed
C12_Witness ==
    /\ q.called
    /\ q.parts.list = <<Partition(SdaDev, "/"), Partition(SdbDev, "/data"),
                        Partition(LooDev, "/mnt")>>
    /\ q.usage["/data"].err /\ ~q.usage["/"].err /\ ~q.usage["/mnt"].err
    /\ Len(s.Disks) = 2
    /\ s.Disks[1].Path = "/" /\ s.Disks[2].Path = "/mnt"

----------------------------------------------------------------------------
(* The handle cache *)

\* C13: a poll calls process.NewProcess for a PID only when procs has no
\* entry for it, and a PID that is enumerated while it has a cached handle
\* keeps that very handle object: over consecutive polls that all enumerate
\* a PID its handle is acquired at most once.
C13_HandleAcquiredOnce ==
    [][ q'.called =>
          /\ acquired' \cap DOMAIN procs = {}
          /\ \A p \in DOMAIN procs :
                (~q'.pids.err /\ p \in Range(q'.pids.list)) =>
                    /\ p \in DOMAIN procs'
                    /\ procs'[p] = procs[p]
                    /\ p \in DOMAIN lastStats' ]_vars

\* PID 100 was sampled through the handle an earlier poll acquired, although
\* the provider would now hand out another object, while PID 101 was acquired
C13_Witness ==
    /\ Enumerated
    /\ 100 \in DOMAIN procs /\ 100 \notin acquired /\ 100 \notin fresh
    /\ procs[100].obj = 1 /\ q.proc[100].handle = 2
    /\ 101 \in acquired /\ 101 \in DOMAIN procs

----------------------------------------------------------------------------
(* Ticks and polls of the message loop *)

\* the tickMsg messages waiting for Update
TicksWaiting == Cardinality({i \in DOMAIN inbox : inbox[i].type = "tickMsg"})

\* C14 as stated: after Init exactly one tick timer is pending at every moment.
C14_OneTimerPending == started => timers = 1

\* C14: handling a tickMsg starts exactly one timer and one poll, a poll that
\* completes delivers exactly one SystemStats message, and after Init there
\* is exactly one tick, either as a pending timer or as its tickMsg waiting
\* for Update, while the polls started are the ticks handled plus one.
C14_OneTickInFlight ==
    [][ /\ ticksHandled' = ticksHandled + 1 =>
              /\ timers' = timers + 1
              /\ running' = running + 1
              /\ pollsStarted' = pollsStarted + 1
        /\ running' < running =>
              /\ running' = running - 1
              /\ Len(inbox') = Len(inbox) + 1
              /\ SubSeq(inbox', 1, Len(inbox)) = inbox
              /\ inbox'[Len(inbox')].type = "SystemStats"
        /\ started' =>
              /\ timers' + TicksWaiting' = 1
              /\ pollsStarted' = ticksHandled' + 1 ]_vars

\* two ticks were handled and the third tick has fired
C14_Witness ==
    /\ started
    /\ ticksHandled = 2
    /\ pollsStarted = 3
    /\ timers = 0
    /\ TicksWaiting = 1

----------------------------------------------------------------------------
(* A failed disk-I/O counter query *)

\* C15: for a PID present in three consecutive polls whose cumulative
\* counter stays at c > 0 and whose I/O query fails on the middle poll only,
\* the DiskRate reported on each of the three polls is 0.
C15_NoRateAfterFailedQuery ==
    polls \in 1..Len(OutageScript) => SampleOf(100).DiskRate = 0

----------------------------------------------------------------------------
(* The two caches together *)

\* C16: after any sequence of polls the handle cache and the sample cache
\* have the same key set, and after a poll that enumerated the processes
\* neither holds a PID outside the enumeration.
C16_SameKeys ==
    /\ DOMAIN procs = DOMAIN lastStats
    /\ Enumerated => DOMAIN lastStats \subseteq Range(q.pids.list)

\* PID 100 was cached and has been purged from both caches, PID 101 stays in
\* both
C16_Witness ==
    /\ Enumerated
    /\ 100 \in gone
    /\ 101 \notin fresh
    /\ DOMAIN procs = {101}
    /\ DOMAIN lastStats = {101}

----------------------------------------------------------------------------
(* The age of the cached samples *)

\* C17: every cached sample was stored by the poll that set lastTime, and a
\* poll that differences a PID's counter against its cached sample divides
\* by the time since that sample was stored, also when polls whose
\* enumeration failed lie in between.
C17_BaselinesDateFromLastTime ==
    [][ /\ \A p \in DOMAIN lastStats' : sampledAt'[p] = lastTime'
        /\ (q'.called /\ ~q'.pids.err) =>
              \A i \in DOMAIN procInfos' :
                 LET p == procInfos'[i].PID
                 IN  p \in DOMAIN lastStats => measured' = q'.now - sampledAt[p] ]_vars

\* a rate was measured over two seconds against a cached sample
C17_Witness ==
    /\ Enumerated
    /\ measured = 2
    /\ 100 \in DOMAIN lastStats /\ 100 \notin fresh
    /\ lastStats[100].DiskRate > 0
    /\ sampledAt[100] = q.now

----------------------------------------------------------------------------
(* A poll whose process enumeration fails *)

\* the system-wide fields of the snapshot are what their own queries gave
SystemFieldsFilled ==
    /\ s.CPUUsage = (IF q.cpu.err \/ q.cpu.vals = <<>> THEN 0 ELSE q.cpu.vals[1])
    /\ <<s.MemoryTotal, s.MemoryUsed, s.MemoryFree>> =
          (IF q.mem.err THEN <<0, 0, 0>> ELSE <<q.mem.Total, q.mem.Used, q.mem.Free>>)
    /\ Len(s.Disks) = (IF q.parts.err \/ q.usage["/"].err THEN 0 ELSE 1)
    /\ \A i \in DOMAIN s.Disks :
          /\ s.Disks[i].Path = "/"
          /\ s.Disks[i].Total = q.usage["/"].Total
          /\ s.Disks[i].Used = q.usage["/"].Used
    /\ <<s.Uptime, s.Hostname, s.OS, s.Platform>> =
          (IF q.host.err THEN <<0, "", "", "">>
           ELSE <<q.host.Uptime, q.host.Hostname, q.host.OS, q.host.Platform>>)
    /\ <<s.NetSent, s.NetRecv>> =
          (IF q.net.err \/ q.net.list = <<>> THEN <<0, 0>>
           ELSE <<q.net.list[1].BytesSent, q.net.list[1].BytesRecv>>)

\* C18: a poll whose process enumeration fails leaves procs, lastStats and
\* lastTime as they were and returns a snapshot whose four Top-N lists are
\* empty and whose system-wide fields are filled from their own queries.
C18_FailedEnumerationKeepsCaches ==
    [][ (q'.called /\ q'.pids.err) =>
          /\ procs' = procs
          /\ lastStats' = lastStats
          /\ lastTime' = lastTime
          /\ err' = GoNil
          /\ s'.TopCPU = <<>> /\ s'.TopMem = <<>>
          /\ s'.TopDisk = <<>> /\ s'.TopNet = <<>>
          /\ SystemFieldsFilled' ]_vars

\* the enumeration failed after a poll that cached PID 100; the system-wide
\* queries all succeeded
C18_Witness ==
    /\ q.called /\ q.pids.err
    /\ DOMAIN procs = {100} /\ DOMAIN lastStats = {100}
    /\ lastTime = 1
    /\ s.TopCPU = <<>> /\ s.TopNet = <<>>
    /\ s.CPUUsage = 37 /\ s.MemoryTotal = 16 /\ Len(s.Disks) = 1
    /\ s.Hostname = "atlas" /\ s.NetSent = 5

----------------------------------------------------------------------------
(* The bandwidth history *)

\* C19: netHistory always has HistoryLen entries, and Update on a
\* SystemStats message shifts it by one and appends, as the newest and last
\* entry, the message's NetSent+NetRecv minus the previous message's total
\* when that total is positive and not larger, and 0 otherwise.
C19_HistoryShiftsByOne ==
    [][ /\ Len(netHistory') = HistoryLen
        /\ \A i \in DOMAIN inbox :
              (inbox[i].type = "SystemStats" /\ inbox' = Remove(inbox, i)) =>
                 LET cur  == inbox[i].NetSent + inbox[i].NetRecv
                     prev == lastNetSent + lastNetRecv
                 IN  /\ \A k \in 1..(HistoryLen - 1) : netHistory'[k] = netHistory[k + 1]
                     /\ netHistory'[HistoryLen] =
                           (IF prev > 0 /\ cur >= prev THEN cur - prev ELSE 0)
                     /\ lastNetSent' + lastNetRecv' = cur ]_vars

\* the snapshots 12, 18, 0, 12 bytes were handled: the history ends 0, 6, 0, 0
C19_Witness ==
    /\ Len(netHistory) = HistoryLen
    /\ netHistory[HistoryLen - 3] = 0
    /\ netHistory[HistoryLen - 2] = 6
    /\ netHistory[HistoryLen - 1] = 0
    /\ netHistory[HistoryLen] = 0
    /\ lastNetSent = 5 /\ lastNetRecv = 7

----------------------------------------------------------------------------
(* Scrolling *)

\* C20: after any sequence of up/down key events and renders the model's
\* scrollOffset lies in [0, max(0, contentLines - height)].
C20_OffsetClamped ==
    view.shown => (0 <= scrollOffset /\ scrollOffset <= view.maxOffset)

====
